---- MODULE Spec2Model ----
(***************************************************************************)
(* Session setup tasks of the GUI backend:                                 *)
(*   gui_plugin/core/dbms/DbSessionSetupTask.py                            *)
(* DbSessionSetupTask backs up and restores the connection options and the *)
(* session data it changes; DbPingHandlerTask starts a DbPingHandler       *)
(* thread once the session is connected and stops and joins it on reset.   *)
(***************************************************************************)
EXTENDS Integers, Sequences, FiniteSets, TLC

\* ------------------------------------------------------------------ bounds
\* option and data values are Num(1) .. Num(MaxVal)
MaxVal == 2
\* number of calls made on a DbSessionSetupTask in one behaviour
MaxCalls == 3
\* number of DbPingHandler threads created in one behaviour
MaxPingers == 2
\* largest positive ping interval
MaxInterval == 2

\* ------------------------------------------------------------------ values
\* Python values: integers, None and a string (a non numeric value).
Num(n) == <<"int", n>>
None == <<"none", 0>>
Str == <<"str", 0>>

IsNum(v) == v[1] = "int"

Vals == {Num(n) : n \in 1..MaxVal}
Defaults == {None, Num(1)}
PingVals == {None, Str, Num(-1), Num(0)} \cup {Num(n) : n \in 1..MaxInterval}

OptKeys == {"o1", "o2"}
PING_INTERVAL == "ping_interval"
DataKeys == {"d1"}

\* ------------------------------------------------------------------- dicts
\* A Python dict is a function whose domain is the set of its keys.
EmptyDict == <<>>
Dicts(K, V) == UNION {[S -> V] : S \in SUBSET K}
Has(d, k) == k \in DOMAIN d
Pop(d, k) == [x \in DOMAIN d \ {k} |-> d[x]]
Put(d, k, v) == [x \in DOMAIN d \cup {k} |-> IF x = k THEN v ELSE d[x]]
\* for k in ks: if k in d: d.pop(k)
PopAll(d, ks) == [x \in DOMAIN d \ ks |-> d[x]]
\* for k, v in src.items(): d[k] = v
PutAll(d, src) == [x \in DOMAIN d \cup DOMAIN src |->
                     IF x \in DOMAIN src THEN src[x] ELSE d[x]]

\* ------------------------------------------------------------ MRS metadata
\* A version is [major, minor, patch]; Python compares lists item by item.
MaxVersion == 2
Versions == (0..MaxVersion) \X (0..MaxVersion) \X (0..MaxVersion)
VersionLess(a, b) ==
    \/ a[1] < b[1]
    \/ a[1] = b[1] /\ a[2] < b[2]
    \/ a[1] = b[1] /\ a[2] = b[2] /\ a[3] < b[3]
\* lib.general.DB_VERSION, the version of the metadata schema of the plugin
DB_VERSION == <<1, 1, 1>>

\* the answers the user types at the upgrade prompt
Answers == {"n", " N ", "y", "Y"}
\* answer.strip().lower()
strip_lower(answer) ==
    CASE answer = "n" -> "n"
      [] answer = " N " -> "n"
      [] answer = "y" -> "y"
      [] answer = "Y" -> "y"

\* no call of mrs.configure yet
NoCall == [called |-> FALSE, interactive |-> FALSE, enable_mrs |-> "None",
           allow |-> FALSE, answer |-> "", exc |-> "none", ret |-> "None",
           schema_changed |-> FALSE, mrs_enabled |-> "None", done |-> <<>>]
\* a server without the MRS metadata schema
NoSchema == [exists |-> FALSE, version |-> <<0, 0, 0>>, updated |-> FALSE,
             row |-> "None", call |-> NoCall]
\* The servers configure is run against: the metadata schema is missing or
\* there with a version, the session has updated it or not, and the row
\* id=1 of the config table is missing or holds service_enabled.
Servers ==
    {[NoSchema EXCEPT !.row = r] : r \in {"None", "0", "1"}}
    \cup {[exists |-> TRUE, version |-> v, updated |-> u, row |-> r,
           call |-> NoCall] :
             v \in Versions, u \in BOOLEAN, r \in {"None", "0", "1"}}

\* One step of configure: the exception it raises, the calls that change
\* the server, schema_changed, and the answer read at the prompt.
Step(exc, done, changed, answer) ==
    [exc |-> exc, done |-> done, changed |-> changed, answer |-> answer]

\* lines 287-296: a major upgrade is available
upgrade_major_always(s, allow) ==
    Step("none", <<"recreate">>, TRUE, "")
upgrade_major(s, allow) ==
    IF allow
    THEN Step("none", <<"recreate">>, TRUE, "")
    ELSE Step("major", <<>>, s.updated, "")

\* lines 298-315: an upgrade within the major version is available
upgrade_minor_updates_first(s, interactive, answer) ==
    IF interactive /\ strip_lower(answer) = "n"
    THEN Step("outdated", <<"update">>, s.updated, answer)
    ELSE Step("none", <<"update">>, s.updated,
              IF interactive THEN answer ELSE "")
upgrade_minor(s, interactive, answer) ==
    IF interactive /\ strip_lower(answer) = "n"
    THEN Step("outdated", <<>>, s.updated, answer)
    ELSE Step("none", <<"update">>, s.updated,
              IF interactive THEN answer ELSE "")

\* lines 273-324: the metadata schema and its version
check_schema(s, interactive, allow, answer) ==
    IF s.exists
    THEN IF VersionLess(DB_VERSION, s.version)
         THEN Step("unsupported", <<>>, s.updated, "")
         ELSE IF s.version[1] < DB_VERSION[1]
              THEN upgrade_major(s, allow)
              ELSE IF VersionLess(s.version, DB_VERSION)
                   THEN upgrade_minor(s, interactive, answer)
                   ELSE Step("none", <<>>, s.updated, "")
    ELSE Step("none", <<"create">>, TRUE, "")

\* lines 326-338: service_enabled is written, or read from the row id=1
enable_step(s, enable_mrs) ==
    IF enable_mrs # "None"
    THEN [done |-> <<"set_enabled">>, mrs_enabled |-> enable_mrs]
    ELSE [done |-> <<>>,
          mrs_enabled |-> IF s.row # "None" THEN s.row ELSE "0"]

\* mrs.configure(session, enable_mrs, allow_recreation_on_major_upgrade),
\* run with get_interactive_default() = interactive; the result is the
\* record of the call.
configure(s, interactive, enable_mrs, allow, answer) ==
    LET st == check_schema(s, interactive, allow, answer)
        en == enable_step(s, enable_mrs)
        c == [NoCall EXCEPT !.called = TRUE, !.interactive = interactive,
                            !.enable_mrs = enable_mrs, !.allow = allow,
                            !.answer = st.answer, !.exc = st.exc,
                            !.done = st.done]
    IN  IF st.exc # "none"
        THEN c
        ELSE [c EXCEPT !.done = st.done \o en.done,
                       !.schema_changed = st.changed,
                       !.mrs_enabled = en.mrs_enabled,
                       !.ret = IF ~interactive THEN "dict" ELSE "None"]

\* a task that has done nothing yet: its four maps are empty
NoTask == [input_options |-> EmptyDict, output_options |-> EmptyDict,
           input_data |-> EmptyDict, output_data |-> EmptyDict,
           touched |-> {}, reset_called |-> FALSE]

\* ------------------------------------------------------------------- state
VARIABLES
    connection_options, \* session.connection_options
    data,               \* session.data
    input_options,      \* task._input_options
    output_options,     \* task._output_options
    input_data,         \* task._input_data
    output_data,        \* task._output_data
    db_pinger,          \* task._db_pinger: 0 is None, else index in pingers
    pingers,            \* the DbPingHandler threads created so far
    pc,                 \* position of the foreground thread
    phase,              \* position of the connection in its life cycle
    last,               \* the last two life cycle calls, the error raised
    hist,               \* the calls made on the task since it was created
    opt0,               \* connection_options when the task was created
    data0,              \* session.data when the task was created
    mrs,                \* the MRS metadata of the server, the last configure
    other               \* a second task bound to the same session

sessionVars == <<connection_options, data>>
optionVars == <<input_options, output_options>>
dataVars == <<input_data, output_data>>
pingVars == <<db_pinger, pingers, pc, phase, last>>
snapVars == <<opt0, data0>>
vars == <<connection_options, data, input_options, output_options,
          input_data, output_data, db_pinger, pingers, pc, phase, last,
          hist, opt0, data0, mrs, other>>

\* one call of the history
Call(op, key, val, ret) == [op |-> op, key |-> key, val |-> val, ret |-> ret]
Log(op, key, val, ret) == hist' = Append(hist, Call(op, key, val, ret))
\* the changes the owner of the session makes are in the history too
ForegroundOps == {"set_data", "pop_data", "set_option", "pop_option"}
TaskCalls == SelectSeq(hist, LAMBDA c : c.op \notin ForegroundOps)
CanCall == pc = "ready" /\ Len(TaskCalls) < MaxCalls

\* ----------------------------------------------------- DbSessionSetupTask
\* __init__: the four maps start empty
TaskInit ==
    /\ input_options = EmptyDict
    /\ output_options = EmptyDict
    /\ input_data = EmptyDict
    /\ output_data = EmptyDict
    /\ hist = <<>>
    /\ opt0 = connection_options
    /\ data0 = data

\* DbPingHandlerTask.__init__
PingTaskInit ==
    /\ db_pinger = 0
    /\ pingers = <<>>
    /\ pc = "ready"
    /\ phase = "created"
    /\ last = [op |-> "__init__", exc |-> "none", prev |-> ""]

has_option(co, option) == Has(co, option)

\* extract_option that forgets to register the value on the input options
extract_unregistered(co, io, option, default_value) ==
    IF has_option(co, option)
    THEN [co |-> Pop(co, option), io |-> io, value |-> co[option]]
    ELSE [co |-> co, io |-> io, value |-> default_value]

\* the effect of extract_option on the two dicts it touches, and its result
extract(co, io, option, default_value) ==
    IF has_option(co, option)
    THEN [co |-> Pop(co, option),
          io |-> Put(io, option, co[option]),
          value |-> co[option]]
    ELSE [co |-> co, io |-> io, value |-> default_value]

extract_option(option, default_value) ==
    LET r == extract(connection_options, input_options, option, default_value)
    IN  /\ CanCall
        /\ connection_options' = r.co
        /\ input_options' = r.io
        /\ Log("extract_option", option, default_value, r.value)
        /\ UNCHANGED <<data, output_options, dataVars, pingVars, snapVars,
                       mrs, other>>

define_option(option, value) ==
    LET r == extract(connection_options, input_options, option, None)
    IN  /\ CanCall
        /\ connection_options' = Put(r.co, option, value)
        /\ input_options' = r.io
        /\ output_options' = Put(output_options, option, value)
        /\ Log("define_option", option, value, None)
        /\ UNCHANGED <<data, dataVars, pingVars, snapVars, mrs, other>>

define_data(option, value) ==
    /\ CanCall
    /\ input_data' = IF Has(data, option)
                     THEN Put(input_data, option, data[option])
                     ELSE input_data
    /\ data' = Put(data, option, value)
    /\ output_data' = Put(output_data, option, value)
    /\ Log("define_data", option, value, None)
    /\ UNCHANGED <<connection_options, optionVars, pingVars, snapVars,
                   mrs, other>>

\* reset that replaces the connection options by the options it backed up
base_reset_drops_options ==
    /\ connection_options' = input_options
    /\ data' = PutAll(PopAll(data, DOMAIN output_data), input_data)
    /\ input_options' = EmptyDict
    /\ output_options' = EmptyDict
    /\ UNCHANGED dataVars

\* reset that leaves in session.data what the task added to it
base_reset_keeps_added_data ==
    /\ connection_options' =
          PutAll(PopAll(connection_options, DOMAIN output_options),
                 input_options)
    /\ data' = PutAll(data, input_data)
    /\ input_options' = EmptyDict
    /\ output_options' = EmptyDict
    /\ UNCHANGED dataVars

\* the body of DbSessionSetupTask.reset
base_reset ==
    /\ connection_options' =
          PutAll(PopAll(connection_options, DOMAIN output_options),
                 input_options)
    /\ data' = PutAll(PopAll(data, DOMAIN output_data), input_data)
    /\ input_options' = EmptyDict
    /\ output_options' = EmptyDict
    /\ UNCHANGED dataVars

reset ==
    /\ CanCall
    /\ base_reset
    /\ Log("reset", "", None, None)
    /\ UNCHANGED <<pingVars, snapVars, mrs, other>>

\* ----------------------------------------------------------- specification
Init ==
    /\ connection_options \in Dicts(OptKeys, Vals)
    /\ data \in Dicts(DataKeys, Vals)
    /\ TaskInit
    /\ PingTaskInit
    /\ mrs = NoSchema
    /\ other = NoTask

ExtractOption ==
    \E option \in OptKeys, default_value \in Defaults :
        extract_option(option, default_value)

DefineOption ==
    \E option \in OptKeys, value \in Vals : define_option(option, value)

DefineData ==
    \E option \in DataKeys, value \in Vals : define_data(option, value)

Next == ExtractOption \/ DefineOption \/ DefineData \/ reset

Spec == Init /\ [][Next]_vars

\* ------------------------------------------------------------ DbPingHandler
\* The thread class lives in gui_plugin/core/dbms/DbSessionUtils.py.
SESSION == "session"

\* DbPingHandler(session, interval): a thread that is not started yet
DbPingHandler(session, interval) ==
    [session |-> session, interval |-> interval, state |-> "Idle",
     loc |-> "new", error |-> FALSE]

\* start(): Idle -> Running, the loop begins with its first sleep
start(p) == [p EXCEPT !.state = "Running", !.loc = "sleep"]

\* stop(): Running -> Stopped; nothing to do when already stopped
stop(p) == IF p.state = "Running" THEN [p EXCEPT !.state = "Stopped"] ELSE p

\* join() returns once the thread has left its loop
joined(p) == p.loc = "exited"

\* the loop wakes from its sleep: one more query if still running
PingerWake(i) ==
    /\ pingers[i].loc = "sleep"
    /\ pingers' = [pingers EXCEPT ![i].loc =
                      IF pingers[i].state = "Running" THEN "query"
                      ELSE "exited"]
    /\ UNCHANGED <<sessionVars, optionVars, dataVars, db_pinger, pc, phase,
                   last, hist, snapVars, mrs, other>>

\* the keep-alive query returns and the loop sleeps again
PingerQueryDone(i) ==
    /\ pingers[i].loc = "query"
    /\ pingers' = [pingers EXCEPT ![i].loc = "sleep"]
    /\ UNCHANGED <<sessionVars, optionVars, dataVars, db_pinger, pc, phase,
                   last, hist, snapVars, mrs, other>>

\* the keep-alive query raises: the loop ends silently
PingerQueryFail(i) ==
    /\ pingers[i].loc = "query"
    /\ pingers' = [pingers EXCEPT ![i].loc = "exited", ![i].error = TRUE]
    /\ UNCHANGED <<sessionVars, optionVars, dataVars, db_pinger, pc, phase,
                   last, hist, snapVars, mrs, other>>

\* ------------------------------------------------------ DbPingHandlerTask
\* the outcome of a life cycle call, and the call that came before it
Returned(op) == [op |-> op, exc |-> "none", prev |-> last.op]
Raised(op, exc) == [op |-> op, exc |-> exc, prev |-> last.op]

\* interval >= 0 in the place of interval > 0
GreaterEq0(interval) ==
    IF IsNum(interval)
    THEN IF interval[2] >= 0 THEN "True" ELSE "False"
    ELSE "TypeError"

\* interval > 0 of Python 3: a str against an int raises TypeError
Greater0(interval) ==
    IF IsNum(interval)
    THEN IF interval[2] > 0 THEN "True" ELSE "False"
    ELSE "TypeError"

has_data(option) == Has(data, option)

\* the ping interval is there and is a number greater than zero
IntervalIsPositive ==
    /\ has_data(PING_INTERVAL)
    /\ Greater0(data[PING_INTERVAL]) = "True"

\* on_connected that creates the DbPingHandler and does not start it
on_connected_without_start ==
    /\ pc = "ready"
    /\ IF has_data(PING_INTERVAL) /\ data[PING_INTERVAL] # None
       THEN LET interval == data[PING_INTERVAL]
                cmp == Greater0(interval)
            IN  CASE cmp = "TypeError" ->
                       /\ last' = Raised("on_connected", "TypeError")
                       /\ UNCHANGED <<db_pinger, pingers>>
                  [] cmp = "True" ->
                       /\ Len(pingers) < MaxPingers
                       /\ pingers' = Append(pingers,
                                        DbPingHandler(SESSION, interval))
                       /\ db_pinger' = Len(pingers) + 1
                       /\ last' = Returned("on_connected")
                  [] cmp = "False" ->
                       /\ last' = Returned("on_connected")
                       /\ UNCHANGED <<db_pinger, pingers>>
       ELSE /\ last' = Returned("on_connected")
            /\ UNCHANGED <<db_pinger, pingers>>
    /\ UNCHANGED <<sessionVars, optionVars, dataVars, pc, hist, snapVars,
                   mrs, other>>

on_connected ==
    /\ pc = "ready"
    /\ IF has_data(PING_INTERVAL) /\ data[PING_INTERVAL] # None
       THEN LET interval == data[PING_INTERVAL]
                cmp == Greater0(interval)
            IN  CASE cmp = "TypeError" ->
                       /\ last' = Raised("on_connected", "TypeError")
                       /\ UNCHANGED <<db_pinger, pingers>>
                  [] cmp = "True" ->
                       /\ Len(pingers) < MaxPingers
                       /\ pingers' = Append(pingers,
                                        start(DbPingHandler(SESSION, interval)))
                       /\ db_pinger' = Len(pingers) + 1
                       /\ last' = Returned("on_connected")
                  [] cmp = "False" ->
                       /\ last' = Returned("on_connected")
                       /\ UNCHANGED <<db_pinger, pingers>>
       ELSE /\ last' = Returned("on_connected")
            /\ UNCHANGED <<db_pinger, pingers>>
    /\ UNCHANGED <<sessionVars, optionVars, dataVars, pc, hist, snapVars,
                   mrs, other>>

\* reset that joins the pinger and has not called stop()
ping_reset_without_stop ==
    /\ pc = "ready"
    /\ base_reset
    /\ IF db_pinger # 0
       THEN /\ pc' = "joining"
            /\ UNCHANGED <<pingers, phase>>
       ELSE /\ phase' = "created"
            /\ UNCHANGED <<pingers, pc>>
    /\ last' = Returned("reset")
    /\ UNCHANGED <<db_pinger, hist, snapVars, mrs, other>>

\* reset that calls start() on a pinger it finds stopped
ping_reset_restarts ==
    /\ pc = "ready"
    /\ base_reset
    /\ IF db_pinger # 0
       THEN /\ pingers' = [pingers EXCEPT ![db_pinger] =
                              IF @.state = "Stopped" THEN start(@)
                              ELSE stop(@)]
            /\ pc' = "joining"
            /\ UNCHANGED phase
       ELSE /\ phase' = "created"
            /\ UNCHANGED <<pingers, pc>>
    /\ last' = Returned("reset")
    /\ UNCHANGED <<db_pinger, hist, snapVars, mrs, other>>

\* reset that forgets super().reset()
ping_reset_without_super ==
    /\ pc = "ready"
    /\ UNCHANGED <<sessionVars, optionVars, dataVars>>
    /\ IF db_pinger # 0
       THEN /\ pingers' = [pingers EXCEPT ![db_pinger] = stop(@)]
            /\ pc' = "joining"
            /\ UNCHANGED phase
       ELSE /\ phase' = "created"
            /\ UNCHANGED <<pingers, pc>>
    /\ last' = Returned("reset")
    /\ UNCHANGED <<db_pinger, hist, snapVars, mrs, other>>

\* reset that stops the pinger and returns without joining it
ping_reset_without_join ==
    /\ pc = "ready"
    /\ base_reset
    /\ IF db_pinger # 0
       THEN pingers' = [pingers EXCEPT ![db_pinger] = stop(@)]
       ELSE UNCHANGED pingers
    /\ phase' = "created"
    /\ last' = Returned("reset")
    /\ UNCHANGED <<db_pinger, pc, hist, snapVars, mrs, other>>

\* DbPingHandlerTask.reset up to the join: super().reset(), then stop()
ping_reset ==
    /\ pc = "ready"
    /\ base_reset
    /\ IF db_pinger # 0
       THEN /\ pingers' = [pingers EXCEPT ![db_pinger] = stop(@)]
            /\ pc' = "joining"
            /\ UNCHANGED phase
       ELSE /\ phase' = "created"
            /\ UNCHANGED <<pingers, pc>>
    /\ last' = Returned("reset")
    /\ UNCHANGED <<db_pinger, hist, snapVars, mrs, other>>

\* reset that sets _db_pinger to None once the pinger is joined
ping_reset_join_clears ==
    /\ pc = "joining"
    /\ joined(pingers[db_pinger])
    /\ pc' = "ready"
    /\ phase' = "created"
    /\ db_pinger' = 0
    /\ UNCHANGED <<sessionVars, optionVars, dataVars, pingers, last, hist,
                   snapVars, mrs, other>>

\* DbPingHandlerTask.reset: join() returns and so does reset
ping_reset_join ==
    /\ pc = "joining"
    /\ joined(pingers[db_pinger])
    /\ pc' = "ready"
    /\ phase' = "created"
    /\ UNCHANGED <<sessionVars, optionVars, dataVars, db_pinger, pingers,
                   last, hist, snapVars, mrs, other>>

\* ------------------------------------------------- the connection life cycle
\* The owner of the session drives the task: on_connect(), the connection,
\* on_connected(), and reset() on teardown or after a failure.

\* on_connect that creates and starts the pinger before the connection
on_connect_starts_pinger ==
    /\ pc = "ready"
    /\ last' = Returned("on_connect")
    /\ IF IntervalIsPositive /\ Len(pingers) < MaxPingers
       THEN /\ pingers' = Append(pingers,
                   start(DbPingHandler(SESSION, data[PING_INTERVAL])))
            /\ db_pinger' = Len(pingers) + 1
       ELSE UNCHANGED <<db_pinger, pingers>>
    /\ UNCHANGED <<sessionVars, optionVars, dataVars, pc, hist, snapVars,
                   mrs, other>>

\* DbSessionSetupTask.on_connect: pass
on_connect ==
    /\ pc = "ready"
    /\ last' = Returned("on_connect")
    /\ UNCHANGED <<sessionVars, optionVars, dataVars, db_pinger, pingers, pc,
                   hist, snapVars, mrs, other>>

OnConnect ==
    /\ phase = "created"
    /\ on_connect
    /\ phase' = "connecting"

\* the physical connection succeeds or fails
Connect ==
    /\ pc = "ready"
    /\ phase = "connecting"
    /\ \E ok \in BOOLEAN :
          /\ phase' = IF ok THEN "open" ELSE "failed"
          /\ last' = IF ok THEN Returned("connect")
                     ELSE Raised("connect", "ConnectionFailure")
    /\ UNCHANGED <<sessionVars, optionVars, dataVars, db_pinger, pingers, pc,
                   hist, snapVars, mrs, other>>

OnConnected ==
    /\ phase = "open"
    /\ on_connected
    /\ phase' = IF last'.exc = "none" THEN "connected" ELSE "failed"

\* the owner of the session writes or removes the ping interval
session_data_set(option, value) ==
    /\ pc = "ready"
    /\ data' = Put(data, option, value)
    /\ UNCHANGED <<connection_options, optionVars, dataVars, pingVars, hist,
                   snapVars, mrs, other>>

session_data_pop(option) ==
    /\ pc = "ready"
    /\ Has(data, option)
    /\ data' = Pop(data, option)
    /\ UNCHANGED <<connection_options, optionVars, dataVars, pingVars, hist,
                   snapVars, mrs, other>>

SetPingInterval ==
    /\ phase = "created"
    /\ \E value \in PingVals : session_data_set(PING_INTERVAL, value)

UnsetPingInterval ==
    /\ phase = "created"
    /\ session_data_pop(PING_INTERVAL)

Wake == \E i \in 1..Len(pingers) : PingerWake(i)
QueryDone == \E i \in 1..Len(pingers) : PingerQueryDone(i)
QueryFail == \E i \in 1..Len(pingers) : PingerQueryFail(i)

InitPing ==
    /\ connection_options = EmptyDict
    /\ data \in Dicts({PING_INTERVAL}, PingVals)
    /\ TaskInit
    /\ PingTaskInit
    /\ mrs = NoSchema
    /\ other = NoTask

NextPing ==
    \/ OnConnect
    \/ Connect
    \/ OnConnected
    \/ ping_reset
    \/ ping_reset_join
    \/ SetPingInterval
    \/ UnsetPingInterval
    \/ Wake
    \/ QueryDone
    \/ QueryFail

SpecPing == InitPing /\ [][NextPing]_vars

\* The pinger thread is scheduled: its sleep ends, the keep-alive query in
\* flight comes back, and join() returns once the thread has ended.
SpecPingFair ==
    /\ SpecPing
    /\ WF_vars(Wake)
    /\ WF_vars(QueryDone \/ QueryFail)
    /\ WF_vars(ping_reset_join)

\* ------------------------------------------- calls in any order
\* The task is public: on_connected() and reset() are called in any order,
\* on_connected() also several times before a reset().
FreeOnConnected ==
    /\ on_connected
    /\ phase' = "connected"

NextFree ==
    \/ FreeOnConnected
    \/ SetPingInterval
    \/ UnsetPingInterval
    \/ ping_reset
    \/ ping_reset_join
    \/ Wake
    \/ QueryDone
    \/ QueryFail

SpecFree == InitPing /\ [][NextFree]_vars

\* ------------------------------------- the foreground changes the session
\* The session outlives the task: its owner changes one entry of
\* session.data or of the connection options between the calls of the task.
ForegroundChanged == \E i \in 1..Len(hist) : hist[i].op \in ForegroundOps

ForegroundSetData ==
    /\ pc = "ready"
    /\ ~ForegroundChanged
    /\ \E k \in DataKeys, v \in Vals :
          /\ data' = Put(data, k, v)
          /\ Log("set_data", k, v, None)
    /\ UNCHANGED <<connection_options, optionVars, dataVars, pingVars,
                   snapVars, mrs, other>>

ForegroundPopData ==
    /\ pc = "ready"
    /\ ~ForegroundChanged
    /\ \E k \in DOMAIN data :
          /\ data' = Pop(data, k)
          /\ Log("pop_data", k, None, None)
    /\ UNCHANGED <<connection_options, optionVars, dataVars, pingVars,
                   snapVars, mrs, other>>

ForegroundSetOption ==
    /\ pc = "ready"
    /\ ~ForegroundChanged
    /\ \E k \in OptKeys, v \in Vals :
          /\ connection_options' = Put(connection_options, k, v)
          /\ Log("set_option", k, v, None)
    /\ UNCHANGED <<data, optionVars, dataVars, pingVars, snapVars, mrs, other>>

ForegroundPopOption ==
    /\ pc = "ready"
    /\ ~ForegroundChanged
    /\ \E k \in DOMAIN connection_options :
          /\ connection_options' = Pop(connection_options, k)
          /\ Log("pop_option", k, None, None)
    /\ UNCHANGED <<data, optionVars, dataVars, pingVars, snapVars, mrs, other>>

NextForeground ==
    \/ ExtractOption
    \/ DefineOption
    \/ DefineData
    \/ reset
    \/ ForegroundSetData
    \/ ForegroundPopData
    \/ ForegroundSetOption
    \/ ForegroundPopOption

SpecForeground == Init /\ [][NextForeground]_vars

\* --------------------------------------------------------- mrs.configure
\* configure is called once against a server, with any arguments.
Configure ==
    /\ ~mrs.call.called
    /\ \E interactive \in BOOLEAN, enable_mrs \in {"None", "True", "False"},
          allow \in BOOLEAN, answer \in Answers :
            mrs' = [mrs EXCEPT !.call =
                       configure(mrs, interactive, enable_mrs, allow, answer)]
    /\ UNCHANGED <<sessionVars, optionVars, dataVars, pingVars, hist,
                   snapVars, other>>

InitConfigure ==
    /\ connection_options = EmptyDict
    /\ data = EmptyDict
    /\ TaskInit
    /\ PingTaskInit
    /\ mrs \in Servers
    /\ other = NoTask

NextConfigure == Configure

SpecConfigure == InitConfigure /\ [][NextConfigure]_vars

\* ------------------------------------------- a task whose hooks do changes
\* The hooks of a task define one connection option and one data entry
\* while the connection goes through its life cycle.
Called(op) == \E i \in 1..Len(hist) : hist[i].op = op

HookDefineOption == ~Called("define_option") /\ DefineOption
HookDefineData == ~Called("define_data") /\ DefineData

InitHooks ==
    /\ connection_options \in Dicts(OptKeys, Vals)
    /\ data \in Dicts({PING_INTERVAL}, {Num(n) : n \in 1..MaxInterval})
    /\ TaskInit
    /\ PingTaskInit
    /\ mrs = NoSchema
    /\ other = NoTask

NextHooks ==
    \/ OnConnect
    \/ Connect
    \/ OnConnected
    \/ ping_reset
    \/ ping_reset_join
    \/ HookDefineOption
    \/ HookDefineData
    \/ Wake
    \/ QueryDone
    \/ QueryFail

SpecHooks == InitHooks /\ [][NextHooks]_vars

\* ------------------------------------------- two tasks on the same session
\* A second task is bound to the session of the first one. The first task
\* makes its changes, one per key, then the second task makes its own, one
\* per key; the second task is reset first, the first task after it.
OtherMayCall(k) ==
    /\ pc = "ready"
    /\ ~other.reset_called
    /\ k \notin other.touched

other_extract_option(option, default_value) ==
    LET r == extract(connection_options, other.input_options, option,
                     default_value)
    IN  /\ OtherMayCall(option)
        /\ connection_options' = r.co
        /\ other' = [other EXCEPT !.input_options = r.io,
                                  !.touched = @ \cup {option}]
        /\ UNCHANGED <<data, optionVars, dataVars, pingVars, hist, snapVars,
                       mrs>>

other_define_option(option, value) ==
    LET r == extract(connection_options, other.input_options, option, None)
    IN  /\ OtherMayCall(option)
        /\ connection_options' = Put(r.co, option, value)
        /\ other' = [other EXCEPT
                        !.input_options = r.io,
                        !.output_options = Put(@, option, value),
                        !.touched = @ \cup {option}]
        /\ UNCHANGED <<data, optionVars, dataVars, pingVars, hist, snapVars,
                       mrs>>

other_define_data(option, value) ==
    /\ OtherMayCall(option)
    /\ other' = [other EXCEPT
                    !.input_data = IF Has(data, option)
                                   THEN Put(@, option, data[option])
                                   ELSE @,
                    !.output_data = Put(@, option, value),
                    !.touched = @ \cup {option}]
    /\ data' = Put(data, option, value)
    /\ UNCHANGED <<connection_options, optionVars, dataVars, pingVars, hist,
                   snapVars, mrs>>

\* reset of the second task that removes what the task added and does not
\* put back what it had archived
other_reset_without_restore ==
    /\ pc = "ready"
    /\ ~other.reset_called
    /\ connection_options' =
          PopAll(connection_options, DOMAIN other.output_options)
    /\ data' = PopAll(data, DOMAIN other.output_data)
    /\ other' = [other EXCEPT !.input_options = EmptyDict,
                              !.output_options = EmptyDict,
                              !.reset_called = TRUE]
    /\ UNCHANGED <<optionVars, dataVars, pingVars, hist, snapVars, mrs>>

\* DbSessionSetupTask.reset of the second task
other_reset ==
    /\ pc = "ready"
    /\ ~other.reset_called
    /\ connection_options' =
          PutAll(PopAll(connection_options, DOMAIN other.output_options),
                 other.input_options)
    /\ data' = PutAll(PopAll(data, DOMAIN other.output_data),
                      other.input_data)
    /\ other' = [other EXCEPT !.input_options = EmptyDict,
                              !.output_options = EmptyDict,
                              !.reset_called = TRUE]
    /\ UNCHANGED <<optionVars, dataVars, pingVars, hist, snapVars, mrs>>

\* the first task makes a change to key k: before the second task does
\* anything, and once per key
FirstMayCall(k) ==
    /\ other = NoTask
    /\ ~Called("reset")
    /\ \A i \in 1..Len(hist) : hist[i].key # k

FirstExtractOption ==
    \E option \in OptKeys, default_value \in Defaults :
        FirstMayCall(option) /\ extract_option(option, default_value)

FirstDefineOption ==
    \E option \in OptKeys, value \in Vals :
        FirstMayCall(option) /\ define_option(option, value)

FirstDefineData ==
    \E option \in DataKeys, value \in Vals :
        FirstMayCall(option) /\ define_data(option, value)

OtherExtractOption ==
    \E option \in OptKeys, default_value \in Defaults :
        other_extract_option(option, default_value)

OtherDefineOption ==
    \E option \in OptKeys, value \in Vals : other_define_option(option, value)

OtherDefineData ==
    \E option \in DataKeys, value \in Vals : other_define_data(option, value)

\* the first task is reset once the second one has been
FirstReset ==
    /\ other.reset_called
    /\ ~Called("reset")
    /\ reset

NextTwo ==
    \/ FirstExtractOption
    \/ FirstDefineOption
    \/ FirstDefineData
    \/ OtherExtractOption
    \/ OtherDefineOption
    \/ OtherDefineData
    \/ other_reset
    \/ FirstReset

\* Each key is absent from the session or holds the value it was given at
\* first; the two tasks write this value or others.
InitTwo ==
    /\ connection_options \in Dicts(OptKeys, {Num(1)})
    /\ data \in Dicts(DataKeys, {Num(1)})
    /\ TaskInit
    /\ PingTaskInit
    /\ mrs = NoSchema
    /\ other = NoTask

SpecTwo == InitTwo /\ [][NextTwo]_vars

\* ===================================================== history of the calls
LastCall == hist[Len(hist)]
CallsOn(k) == SelectSeq(hist, LAMBDA c : c.key = k)
Resets == SelectSeq(hist, LAMBDA c : c.op = "reset")
\* the history ends with the first reset of the task
EndsWithFirstReset ==
    /\ hist # <<>>
    /\ LastCall.op = "reset"
    /\ Len(Resets) = 1
\* the history ends with a reset
EndsWithReset == hist # <<>> /\ LastCall.op = "reset"

\* d holds for k what d0 held for it: the same value, or no entry
SameEntry(d, d0, k) ==
    IF Has(d0, k) THEN Has(d, k) /\ d[k] = d0[k] ELSE ~Has(d, k)

\* the calls made on k are exactly two calls of op
CalledTwice(op, k) ==
    /\ Len(CallsOn(k)) = 2
    /\ CallsOn(k)[1].op = op
    /\ CallsOn(k)[2].op = op

\* ------------------------------------------------------------------------ C1
\* C1: define_option(k, v1), define_option(k, v2), reset() leaves
\* connection_options[k] as it was when the task was created (the same value,
\* or absent), and between the two define_option calls and the reset the
\* input options hold for k the value of before the task, archived once.
C1_RestoresOriginalOption ==
    \A k \in OptKeys :
        CalledTwice("define_option", k) =>
            /\ Resets = <<>> => SameEntry(input_options, opt0, k)
            /\ EndsWithFirstReset => SameEntry(connection_options, opt0, k)

\* ------------------------------------------------------------------------ C2
\* C2: for a key k of session.data with value d0, define_data(k, d1) followed
\* by define_data(k, d2) leaves input_data[k] = d0, and a following reset()
\* sets session.data[k] back to d0.
C2_ArchivesDataOnce ==
    \A k \in DataKeys :
        (Has(data0, k) /\ CalledTwice("define_data", k)) =>
            /\ Resets = <<>> => SameEntry(input_data, data0, k)
            /\ EndsWithFirstReset => SameEntry(data, data0, k)

\* ------------------------------------------------------------------------ C3
\* C3: after any sequence of extract_option and define_option calls that uses
\* each key at most once, reset() leaves connection_options equal to the
\* mapping of before the task: same keys, same values.
EachOptionUsedOnce == \A k \in OptKeys : Len(CallsOn(k)) <= 1

C3_DisjointKeysRestored ==
    (EndsWithReset /\ EachOptionUsedOnce) => connection_options = opt0

\* an option extracted, another one defined, and then the reset
C3_Witness ==
    /\ Len(hist) = 3
    /\ hist[1].op = "extract_option" /\ Has(opt0, hist[1].key)
    /\ hist[2].op = "define_option" /\ hist[2].key # hist[1].key
    /\ Has(opt0, hist[2].key) /\ opt0[hist[2].key] # hist[2].val
    /\ hist[3].op = "reset"
    /\ connection_options = opt0

\* ------------------------------------------------------------------------ C6
\* C6: after reset() has returned, the four snapshot maps of the task are
\* empty: input_options, output_options, input_data and output_data.
C6_SnapshotsCleared ==
    EndsWithReset =>
        /\ input_options = EmptyDict
        /\ output_options = EmptyDict
        /\ input_data = EmptyDict
        /\ output_data = EmptyDict

\* ----------------------------------------------------------------------- C10
\* C10: for a key k absent from session.data, define_data(k, v) followed by
\* reset() leaves k absent from session.data again, and input_data records
\* no entry for k.
DefinedOnce(k) ==
    /\ Len(CallsOn(k)) = 1
    /\ CallsOn(k)[1].op = "define_data"

C10_AddedDataRemoved ==
    \A k \in DataKeys :
        (~Has(data0, k) /\ DefinedOnce(k)) =>
            /\ ~Has(input_data, k)
            /\ EndsWithReset => ~Has(data, k)

\* a key that was absent is defined, and the reset has removed it again
C10_Witness ==
    \E k \in DataKeys :
        /\ ~Has(data0, k)
        /\ DefinedOnce(k)
        /\ EndsWithReset
        /\ Has(output_data, k)
        /\ ~Has(data, k)

\* ----------------------------------------------------------------------- C11
\* C11: extract_option(name, default) on a key absent from connection_options
\* returns the default and changes neither input_options, connection_options
\* nor session.data; on a key that is present it removes the key from
\* connection_options, records the removed value in input_options[name] and
\* returns it, and session.data is unchanged.
ExtractOptionCalled ==
    /\ Len(hist') = Len(hist) + 1
    /\ hist'[Len(hist')].op = "extract_option"

C11_ExtractOptionEffect ==
    [][ExtractOptionCalled =>
          LET c == hist'[Len(hist')]
          IN  /\ data' = data
              /\ IF Has(connection_options, c.key)
                 THEN /\ connection_options' = Pop(connection_options, c.key)
                      /\ input_options' = Put(input_options, c.key,
                                              connection_options[c.key])
                      /\ c.ret = connection_options[c.key]
                 ELSE /\ c.ret = c.val
                      /\ input_options' = input_options
                      /\ connection_options' = connection_options]_vars

\* one extract_option took an option that was present, another one found its
\* key absent and returned the default it was given
C11_Witness ==
    /\ Len(hist) >= 2
    /\ hist[1].op = "extract_option"
    /\ Has(opt0, hist[1].key)
    /\ hist[1].ret = opt0[hist[1].key]
    /\ hist[2].op = "extract_option"
    /\ hist[2].key # hist[1].key
    /\ ~Has(opt0, hist[2].key)
    /\ hist[2].val = Num(1)
    /\ hist[2].ret = Num(1)
    /\ input_options = [k \in {hist[1].key} |-> opt0[k]]

\* ======================================================== the ping handler
Pingers == 1..Len(pingers)
\* the loop of pinger i is active: it sleeps or it runs its query
Active(i) == pingers[i].loc \in {"sleep", "query"}
ActivePingers == {i \in Pingers : Active(i)}
\* reset() has returned and no life cycle call was made since
ResetReturned == pc = "ready" /\ last.op = "reset"
\* on_connected() was the last life cycle call
OnConnectedCalled == last.op = "on_connected"

IntervalValue == IF has_data(PING_INTERVAL) THEN data[PING_INTERVAL] ELSE None
\* absent, None, zero or negative
IntervalDisabled ==
    \/ IntervalValue = None
    \/ IsNum(IntervalValue) /\ IntervalValue[2] <= 0
\* a number strictly greater than zero
IntervalPositive == IsNum(IntervalValue) /\ IntervalValue[2] > 0
\* not a number, or a negative number
IntervalMalformed ==
    \/ IntervalValue = Str
    \/ IsNum(IntervalValue) /\ IntervalValue[2] < 0

\* ------------------------------------------------------------------------ C4
\* C4: once reset() has returned, the loop of every pinger the task started
\* has terminated: none sleeps and none has a keep-alive query in flight, so
\* no query is issued on the session after the reset.
C4_ResetJoinsPinger ==
    ResetReturned => \A i \in Pingers : pingers[i].loc = "exited"

\* a pinger was started by on_connected and the reset that followed returned
C4_Witness ==
    /\ ResetReturned
    /\ last.prev = "on_connected"
    /\ db_pinger # 0
    /\ pingers[db_pinger].state = "Stopped"
    /\ pingers[db_pinger].loc = "exited"

C7_MalformedIntervalDisables ==
    (OnConnectedCalled /\ IntervalMalformed) =>
        /\ last.exc = "none"
        /\ ActivePingers = {}

\* ------------------------------------------------------------------------ C8
\* C8: a pinger exists only for an interval that was a number greater than
\* zero; on_connected() with an absent, None, zero or negative interval
\* raises nothing and creates none, so _db_pinger stays None for as long as
\* no pinger was created, and reset() then waits for no thread.
C8_DisabledIntervalNoPinger ==
    /\ \A i \in Pingers :
          IsNum(pingers[i].interval) /\ pingers[i].interval[2] > 0
    /\ (OnConnectedCalled /\ IntervalDisabled) =>
          /\ last.exc = "none"
          /\ ActivePingers = {}
    /\ pingers = <<>> => db_pinger = 0
    /\ db_pinger = 0 => (pingers = <<>> /\ pc # "joining")

\* on_connected ran with pinging disabled, and reset() has returned after it
C8_Witness ==
    /\ ResetReturned
    /\ last.prev = "on_connected"
    /\ IntervalDisabled
    /\ has_data(PING_INTERVAL)
    /\ db_pinger = 0
    /\ pingers = <<>>

\* ------------------------------------------------------------------------ C9
\* C9: when on_connected() returns with an interval that is a number greater
\* than zero, it has created one pinger, bound to the session of the task and
\* to that interval, Running, designated by _db_pinger, and that pinger is the
\* only one whose loop is active.
OnConnectedReturns == phase = "open" /\ phase' = "connected"

C9_OnePingerStarted ==
    [][(OnConnectedReturns /\ IntervalPositive) =>
          /\ Len(pingers') = Len(pingers) + 1
          /\ db_pinger' = Len(pingers')
          /\ pingers'[db_pinger'] =
                [session |-> SESSION, interval |-> IntervalValue,
                 state |-> "Running", loc |-> "sleep", error |-> FALSE]
          /\ {i \in 1..Len(pingers') : pingers'[i].loc \in {"sleep", "query"}}
                = {db_pinger'}]_vars

\* on_connected has just started the second pinger of the task
C9_Witness ==
    /\ OnConnectedCalled
    /\ phase = "connected"
    /\ IntervalPositive
    /\ db_pinger = 2
    /\ ActivePingers = {2}

\* ----------------------------------------------------------------------- C12
\* C12: a keep-alive query that raises ends the loop of its pinger and
\* reaches the foreground in no way: the step changes nothing of the task or
\* of the session, and the reset() that joins this pinger returns normally
\* with connection_options and session.data restored.
QueryRaised ==
    \E i \in 1..Len(pingers) : ~pingers[i].error /\ pingers'[i].error

ResetJoinReturns == pc = "joining" /\ pc' = "ready"

C12_PingFailureSwallowed ==
    [][/\ \A i \in 1..Len(pingers') :
             pingers'[i].error => pingers'[i].loc = "exited"
       /\ QueryRaised =>
             UNCHANGED <<sessionVars, optionVars, dataVars, db_pinger, pc,
                         phase, last, hist>>
       /\ (ResetJoinReturns /\ pingers[db_pinger].error) =>
             /\ last'.op = "reset"
             /\ last'.exc = "none"
             /\ connection_options' = opt0
             /\ data' = data0]_vars

\* the query of the pinger raised, and the reset has returned with the option
\* and the data entry the hooks had defined put back
C12_Witness ==
    /\ ResetReturned
    /\ db_pinger # 0
    /\ pingers[db_pinger].error
    /\ Called("define_option")
    /\ Called("define_data")
    /\ output_options = EmptyDict
    /\ output_data # EmptyDict
    /\ \E i \in 1..Len(hist) :
          /\ hist[i].op = "define_option"
          /\ Has(opt0, hist[i].key)
          /\ opt0[hist[i].key] # hist[i].val
    /\ connection_options = opt0
    /\ data = data0

\* ----------------------------------------------------------------------- C14
\* C14: no step of the task, reset() included, changes the entry of
\* connection_options or of session.data for a key that was never passed to
\* extract_option, define_option or define_data; and a task that made none of
\* these calls leaves connection_options and session.data as they were when
\* it was created, through on_connect, connect, on_connected and reset.
Touched(h, k) == \E i \in 1..Len(h) : h[i].key = k

C14_UntouchedKeysKept ==
    [][/\ \A k \in OptKeys :
             ~Touched(hist', k) =>
                 SameEntry(connection_options', connection_options, k)
       /\ \A k \in DataKeys \cup {PING_INTERVAL} :
             ~Touched(hist', k) => SameEntry(data', data, k)
       /\ hist' = <<>> =>
             (connection_options' = opt0 /\ data' = data0)]_vars

\* a task without overrides went through the life cycle, pinger included,
\* and its reset has returned with every option and data entry as before
C14_Witness ==
    /\ ResetReturned
    /\ last.prev = "on_connected"
    /\ pingers # <<>>
    /\ hist = <<>>
    /\ DOMAIN opt0 = OptKeys
    /\ connection_options = opt0
    /\ data = data0

\* ----------------------------------------------------------------------- C13
\* C13: connect comes after on_connect() and on_connected() after a connect
\* that succeeded; a pinger is created by no step but on_connected(), and a
\* keep-alive query is in flight only once on_connected() has returned.
C13_PingAfterOnConnected ==
    [][/\ (last' # last /\ last'.op = "connect") => last.op = "on_connect"
       /\ (last' # last /\ last'.op = "on_connected") =>
             (last.op = "connect" /\ last.exc = "none")
       /\ Len(pingers') > Len(pingers) =>
             /\ phase = "open"
             /\ last.op = "connect"
             /\ last.prev = "on_connect"
             /\ last'.op = "on_connected"
       /\ \A i \in 1..Len(pingers') :
             pingers'[i].loc = "query" => phase' = "connected"]_vars

\* on_connect, connect, on_connected, and the pinger runs its query
C13_Witness ==
    /\ last.op = "on_connected"
    /\ last.prev = "connect"
    /\ phase = "connected"
    /\ db_pinger # 0
    /\ pingers[db_pinger].loc = "query"

\* ----------------------------------------------------------------------- C15
\* C15: a pinger goes from Running to Stopped and never back, a loop that has
\* exited never runs again and a stopped pinger starts no new query; a
\* reset() that finds its pinger already stopped changes nothing of it and
\* finds it joined, so it returns without waiting.
ResetCalledOnStopped ==
    /\ pc = "ready"
    /\ pc' = "joining"
    /\ pingers[db_pinger].state = "Stopped"

C15_StoppedIsTerminal ==
    [][/\ \A i \in 1..Len(pingers) :
             /\ pingers'[i].state # pingers[i].state =>
                   (pingers[i].state = "Running"
                       /\ pingers'[i].state = "Stopped")
             /\ pingers[i].loc = "exited" => pingers'[i].loc = "exited"
             /\ (pingers[i].state = "Stopped" /\ pingers'[i].loc = "query")
                   => pingers[i].loc = "query"
       /\ ResetCalledOnStopped =>
             /\ pingers' = pingers
             /\ joined(pingers'[db_pinger])
       /\ (pc' = "joining" /\ last'.prev = "reset") =>
             joined(pingers'[db_pinger])]_vars

\* the second of two resets in a row has returned, the pinger is the same
C15_Witness ==
    /\ ResetReturned
    /\ last.prev = "reset"
    /\ phase = "created"
    /\ db_pinger # 0
    /\ pingers[db_pinger].state = "Stopped"
    /\ pingers[db_pinger].loc = "exited"

\* ----------------------------------------------------------------------- C16
\* C16: a reset() that waits in join() eventually returns, with its pinger
\* Stopped and the loop of the pinger ended.
C16_ResetTerminates ==
    (pc = "joining") ~>
        (/\ pc = "ready"
         /\ last.op = "reset"
         /\ db_pinger # 0
         /\ pingers[db_pinger].state = "Stopped"
         /\ pingers[db_pinger].loc = "exited")

\* reset() has called stop() and waits while the keep-alive query is in flight
C16_Witness ==
    /\ pc = "joining"
    /\ last.op = "reset"
    /\ pingers[db_pinger].state = "Stopped"
    /\ pingers[db_pinger].loc = "query"

\* ------------------------------------------------------ mrs.configure claims
ConfigureCalled == mrs.call.called
ConfigureReturned == ConfigureCalled /\ mrs.call.exc = "none"
ConfigureRaised == ConfigureCalled /\ mrs.call.exc # "none"
\* the calls of configure that create, recreate or update the schema
SchemaActions == SelectSeq(mrs.call.done, LAMBDA a : a # "set_enabled")
StoredNewer == mrs.exists /\ VersionLess(DB_VERSION, mrs.version)
StoredMajorOlder ==
    /\ mrs.exists
    /\ ~VersionLess(DB_VERSION, mrs.version)
    /\ mrs.version[1] < DB_VERSION[1]
StoredMinorOlder ==
    /\ mrs.exists
    /\ mrs.version[1] = DB_VERSION[1]
    /\ VersionLess(mrs.version, DB_VERSION)
StoredCurrent == mrs.exists /\ mrs.version = DB_VERSION
AnsweredNo == mrs.call.interactive /\ strip_lower(mrs.call.answer) = "n"

\* ----------------------------------------------------------------------- C17
\* C17: a call of configure that does not raise returns True when it runs
\* non-interactively and None when it runs interactively.
C17_ReturnsTrueOrNone ==
    ConfigureReturned =>
        IF mrs.call.interactive
        THEN mrs.call.ret = "None"
        ELSE mrs.call.ret = "True"

\* ----------------------------------------------------------------------- C18
\* C18: a call of configure that raises from its version checks (stored
\* version newer than DB_VERSION, stored major older without
\* allow_recreation_on_major_upgrade, 'n' answered at the upgrade prompt) has
\* made no call that creates, recreates or updates the metadata schema or
\* writes service_enabled, whatever enable_mrs is.
C18_RaisesBeforeMutation ==
    ConfigureRaised =>
        /\ mrs.call.done = <<>>
        /\ \/ mrs.call.exc = "unsupported" /\ StoredNewer
           \/ mrs.call.exc = "major" /\ StoredMajorOlder /\ ~mrs.call.allow
           \/ mrs.call.exc = "outdated" /\ StoredMinorOlder /\ AnsweredNo

\* the user answered ' N ' at the upgrade prompt of a call that was to
\* enable the service
C18_Witness ==
    /\ ConfigureRaised
    /\ mrs.call.exc = "outdated"
    /\ mrs.call.answer = " N "
    /\ mrs.call.enable_mrs = "True"

\* ----------------------------------------------------------------------- C19
\* C19 as stated: one schema action per call, selected by the stored version
\* alone: missing -> create; newer -> raise; major older -> recreate if
\* allowed, else raise; same major and older -> update in place; equal ->
\* nothing; and a recreation only for an older major with the permission.
C19_ActionByVersionOnly ==
    ConfigureCalled =>
        /\ ~mrs.exists =>
               mrs.call.exc = "none" /\ SchemaActions = <<"create">>
        /\ StoredNewer =>
               mrs.call.exc = "unsupported" /\ SchemaActions = <<>>
        /\ StoredMajorOlder =>
               IF mrs.call.allow
               THEN mrs.call.exc = "none" /\ SchemaActions = <<"recreate">>
               ELSE mrs.call.exc = "major" /\ SchemaActions = <<>>
        /\ StoredMinorOlder =>
               mrs.call.exc = "none" /\ SchemaActions = <<"update">>
        /\ StoredCurrent =>
               mrs.call.exc = "none" /\ SchemaActions = <<>>
        /\ (\E i \in 1..Len(mrs.call.done) : mrs.call.done[i] = "recreate")
               => StoredMajorOlder /\ mrs.call.allow

\* C19, amended: as above, but with the same major and an older version an
\* interactive call whose user answers 'n' raises and updates nothing.
C19_ActionByVersionAndAnswer ==
    ConfigureCalled =>
        /\ ~mrs.exists =>
               mrs.call.exc = "none" /\ SchemaActions = <<"create">>
        /\ StoredNewer =>
               mrs.call.exc = "unsupported" /\ SchemaActions = <<>>
        /\ StoredMajorOlder =>
               IF mrs.call.allow
               THEN mrs.call.exc = "none" /\ SchemaActions = <<"recreate">>
               ELSE mrs.call.exc = "major" /\ SchemaActions = <<>>
        /\ StoredMinorOlder =>
               IF AnsweredNo
               THEN mrs.call.exc = "outdated" /\ SchemaActions = <<>>
               ELSE mrs.call.exc = "none" /\ SchemaActions = <<"update">>
        /\ StoredCurrent =>
               mrs.call.exc = "none" /\ SchemaActions = <<>>
        /\ (\E i \in 1..Len(mrs.call.done) : mrs.call.done[i] = "recreate")
               => StoredMajorOlder /\ mrs.call.allow

\* an interactive call updated an older version of the same major in place
\* after the user answered 'Y'
C19_Witness ==
    /\ ConfigureReturned
    /\ StoredMinorOlder
    /\ mrs.call.interactive
    /\ mrs.call.answer = "Y"
    /\ SchemaActions = <<"update">>

\* ----------------------------------------------------------------------- C20
\* C20: once reset() has returned no loop of a pinger started by the task is
\* still active, on_connected() having been called once or several times, and
\* at no time are two loops of the task active together.
C20_EveryPingerStopped ==
    /\ ResetReturned => ActivePingers = {}
    /\ Cardinality(ActivePingers) <= 1

\* ----------------------------------------------------------------------- C21
\* the one change the foreground made
ForegroundCall ==
    hist[CHOOSE m \in 1..Len(hist) : hist[m].op \in ForegroundOps]
\* the task defined k, was reset, the foreground then changed k, the task
\* did not touch k again, and the task was reset once more
ChangedAfterReset(define, k) ==
    /\ EndsWithReset
    /\ \E i, j, m \in 1..Len(hist) :
          /\ i < j /\ j < m /\ m < Len(hist)
          /\ hist[i].op = define /\ hist[i].key = k
          /\ hist[j].op = "reset"
          /\ hist[m].op \in ForegroundOps /\ hist[m].key = k
          /\ \A n \in (j + 1)..Len(hist) : hist[n].key = k => n = m
\* entry k of d is what the foreground made of it
AsForegroundLeft(d, k) ==
    IF ForegroundCall.op \in {"set_data", "set_option"}
    THEN Has(d, k) /\ d[k] = ForegroundCall.val
    ELSE ~Has(d, k)

\* C21: after define_data(k, v), reset(), a change of session.data[k] by the
\* foreground and no further call of the task on k, a later reset() leaves
\* session.data[k] as the foreground set it; the same for define_option and
\* the keys of the connection options.
C21_LaterResetKeepsForeground ==
    /\ \A k \in DataKeys :
          (ChangedAfterReset("define_data", k)
             /\ ForegroundCall.op \in {"set_data", "pop_data"})
          => AsForegroundLeft(data, k)
    /\ \A k \in OptKeys :
          (ChangedAfterReset("define_option", k)
             /\ ForegroundCall.op \in {"set_option", "pop_option"})
          => AsForegroundLeft(connection_options, k)

\* ----------------------------------------------------------------------- C22
\* C22: from the creation of the task to its first reset(), every entry of
\* input_options holds the value the key had in connection_options when the
\* task was created, and every entry of input_data the value the key had in
\* session.data then, whatever calls were made on the key.
C22_SnapshotsHoldOriginals ==
    Resets = <<>> =>
        /\ \A k \in DOMAIN input_options :
              Has(opt0, k) /\ input_options[k] = opt0[k]
        /\ \A k \in DOMAIN input_data :
              Has(data0, k) /\ input_data[k] = data0[k]

\* ----------------------------------------------------------------------- C23
\* C23: two tasks on one session; the first changes keys, once each, then the
\* second changes keys, once each, the same keys or others; once the second
\* and then the first task have been reset, connection_options and
\* session.data are what they were before the first change.
C23_ReverseResetRestores ==
    (other.reset_called /\ EndsWithReset) =>
        /\ connection_options = opt0
        /\ data = data0

\* both tasks defined the same option and the same data entry, the first
\* task before the second, and both were reset
C23_Witness ==
    /\ other.reset_called
    /\ EndsWithReset
    /\ \E o \in OptKeys, d \in DataKeys :
          /\ o \in other.touched
          /\ d \in other.touched
          /\ \E i, j \in 1..Len(hist) :
                /\ hist[i].op = "define_option" /\ hist[i].key = o
                /\ hist[j].op = "define_data" /\ hist[j].key = d
          /\ o \in DOMAIN opt0
          /\ d \notin DOMAIN data0

====
